---- MODULE Spec2Model ----
(***************************************************************************)
(* Model of server.js: the POST /recognize handler of the vision backend.  *)
(* One request is followed from the handler's entry to its HTTP response:  *)
(* the race between the upstream call and the timeout timer (withTimeout), *)
(* then JSON.parse, ItemsSchema.parse and the itemsRaw pipeline.           *)
(*                                                                         *)
(* Representation                                                          *)
(*   JS strings    sequences of one-character strings                      *)
(*   JS numbers    [k |-> "fin", v |-> n] with n counted in tenths,        *)
(*                 [k |-> "inf", v |-> +1/-1] and [k |-> "nan", v |-> 0]   *)
(*   JS values     tagged records (t = "null" | "number" | "string" |      *)
(*                 "array" | "object"); objects are functions on keys      *)
(*   JSON texts    [json |-> TRUE, doc |-> syntax tree] for well-formed    *)
(*                 text, [json |-> FALSE, chars |-> characters] otherwise  *)
(***************************************************************************)
EXTENDS Integers, Sequences, FiniteSets, TLC

\* Longest items array the upstream text carries in the model.
MaxItems == 6

\* textOut.slice(0, 400)
SliceLen == 400

\* .slice(0, 5)
MaxOut == 5

----------------------------------------------------------------------------
(* Strings *)

Upper == <<"A","B","C","D","E","F","G","H","I","J","K","L","M",
           "N","O","P","Q","R","S","T","U","V","W","X","Y","Z">>

Lower == <<"a","b","c","d","e","f","g","h","i","j","k","l","m",
           "n","o","p","q","r","s","t","u","v","w","x","y","z">>

\* the characters String.prototype.trim and the regex class \s remove/match
WhiteSpace == {" ", "\t", "\n"}

UpperSet == {Upper[i] : i \in 1..Len(Upper)}

LowerChar(c) ==
  IF c \in UpperSet
    THEN Lower[CHOOSE i \in 1..Len(Upper) : Upper[i] = c]
    ELSE c

toLowerCase(s) == [i \in 1..Len(s) |-> LowerChar(s[i])]

trim(s) ==
  IF \A i \in 1..Len(s) : s[i] \in WhiteSpace
    THEN <<>>
    ELSE LET first == CHOOSE i \in 1..Len(s) :
                         /\ s[i] \notin WhiteSpace
                         /\ \A j \in 1..(i - 1) : s[j] \in WhiteSpace
             last  == CHOOSE i \in 1..Len(s) :
                         /\ s[i] \notin WhiteSpace
                         /\ \A j \in (i + 1)..Len(s) : s[j] \in WhiteSpace
         IN  SubSeq(s, first, last)

\* w occurs in s starting at position i
OccursAt(s, w, i) ==
  /\ i >= 1
  /\ i + Len(w) - 1 <= Len(s)
  /\ \A j \in 1..Len(w) : s[i + j - 1] = w[j]

\* unanchored regex search for a literal word
Includes(s, w) == \E i \in 1..(Len(s) - Len(w) + 1) : OccursAt(s, w, i)

----------------------------------------------------------------------------
(* Numbers *)

Fin(n) == [k |-> "fin", v |-> n]
PosInf == [k |-> "inf", v |-> 1]
NegInf == [k |-> "inf", v |-> -1]
NaN == [k |-> "nan", v |-> 0]

\* n counted in units: the number 1 is Fin(Tenths(1))
Tenths(n) == 10 * n

NumLess(a, b) ==
  CASE a.k = "nan" \/ b.k = "nan" -> FALSE
    [] a.k = "fin" /\ b.k = "fin" -> a.v < b.v
    [] a.k = "inf" /\ b.k = "fin" -> a.v < 0
    [] a.k = "fin" /\ b.k = "inf" -> b.v > 0
    [] OTHER -> a.v < b.v

MathMin(a, b) ==
  IF a.k = "nan" \/ b.k = "nan" THEN NaN
  ELSE IF NumLess(b, a) THEN b ELSE a

MathMax(a, b) ==
  IF a.k = "nan" \/ b.k = "nan" THEN NaN
  ELSE IF NumLess(a, b) THEN b ELSE a

\* b - a of the sort comparator
NumSub(a, b) ==
  CASE a.k = "nan" \/ b.k = "nan" -> NaN
    [] a.k = "fin" /\ b.k = "fin" -> Fin(a.v - b.v)
    [] a.k = "inf" /\ b.k = "inf" -> IF a.v = b.v THEN NaN ELSE a
    [] a.k = "inf" -> a
    [] OTHER -> [k |-> "inf", v |-> 0 - b.v]

----------------------------------------------------------------------------
(* JS values and JSON *)

Undefined == [t |-> "undefined"]
JsNull == [t |-> "null"]
JsNum(n) == [t |-> "number", n |-> n]
JsStr(s) == [t |-> "string", s |-> s]
JsArr(a) == [t |-> "array", a |-> a]
JsObj(o) == [t |-> "object", o |-> o]

\* ToBoolean, as used by the || operator
Truthy(x) ==
  CASE x.t = "null" \/ x.t = "undefined" -> FALSE
    [] x.t = "string" -> Len(x.s) > 0
    [] x.t = "number" -> ~(x.n.k = "nan" \/ (x.n.k = "fin" /\ x.n.v = 0))
    [] OTHER -> TRUE

\* obj.key: undefined when the object has no such property
Get(obj, key) == IF key \in DOMAIN obj.o THEN obj.o[key] ELSE Undefined

\* a || b
JsOr(a, b) == IF Truthy(a) THEN a ELSE b

\* String(x) for the values the pipeline hands to it
String(x) == CASE x.t = "string" -> x.s

\* Number(x)
Number(x) ==
  CASE x.t = "number" -> x.n
    [] x.t = "null" -> Fin(0)
    [] x.t = "string" -> IF trim(x.s) = <<>> THEN Fin(0) ELSE NaN
    [] OTHER -> NaN

\* Number literal of a JSON text: mant tenths; huge when the exponent
\* is beyond the double range (1e999).
Lit(mant, huge) == [t |-> "number", mant |-> mant, huge |-> huge]

RECURSIVE JSONparseDoc(_)
JSONparseDoc(d) ==
  CASE d.t = "null" -> JsNull
    [] d.t = "string" -> JsStr(d.s)
    [] d.t = "number" ->
         IF d.huge
           THEN JsNum(IF d.mant < 0 THEN NegInf ELSE PosInf)
           ELSE JsNum(Fin(d.mant))
    [] d.t = "array" -> JsArr([i \in 1..Len(d.a) |-> JSONparseDoc(d.a[i])])
    [] d.t = "object" -> JsObj([key \in DOMAIN d.o |-> JSONparseDoc(d.o[key])])

\* JSON.parse: [ok |-> FALSE] stands for the SyntaxError it throws
JSONparse(text) ==
  IF text.json
    THEN [ok |-> TRUE, value |-> JSONparseDoc(text.doc)]
    ELSE [ok |-> FALSE]

RECURSIVE JSONstringifyDoc(_)
JSONstringifyDoc(x) ==
  CASE x.t = "null" -> JsNull
    [] x.t = "string" -> JsStr(x.s)
    [] x.t = "number" ->
         IF x.n.k = "fin" THEN Lit(x.n.v, FALSE) ELSE JsNull
    [] x.t = "array" -> JsArr([i \in 1..Len(x.a) |-> JSONstringifyDoc(x.a[i])])
    [] x.t = "object" -> JsObj([key \in DOMAIN x.o |-> JSONstringifyDoc(x.o[key])])

JSONstringify(x) == [json |-> TRUE, doc |-> JSONstringifyDoc(x)]

----------------------------------------------------------------------------
(* Schema validation *)

\* z.number(): never NaN; infinite values pass only where the installed
\* zod does not require finiteness (finiteOnly = FALSE)
zNumber(x, finiteOnly) ==
  /\ x.t = "number"
  /\ x.n.k # "nan"
  /\ (finiteOnly => x.n.k = "fin")

zString(x) == x.t = "string"

\* variant: the canonical key is optional
zItemNoCanonical(x, finiteOnly) ==
  /\ x.t = "object"
  /\ "label" \in DOMAIN x.o /\ zString(x.o["label"])
  /\ "confidence" \in DOMAIN x.o /\ zNumber(x.o["confidence"], finiteOnly)

\* the inner z.object({label, confidence, canonical})
zItem(x, finiteOnly) ==
  /\ x.t = "object"
  /\ "label" \in DOMAIN x.o /\ zString(x.o["label"])
  /\ "confidence" \in DOMAIN x.o /\ zNumber(x.o["confidence"], finiteOnly)
  /\ "canonical" \in DOMAIN x.o /\ zString(x.o["canonical"])

\* unknown keys of a z.object are stripped from the parsed value
StripItem(x) ==
  JsObj([key \in {"label", "confidence", "canonical"} \cap DOMAIN x.o |->
           x.o[key]])

ItemsSchemaAccepts(d, finiteOnly) ==
  /\ d.t = "object"
  /\ "items" \in DOMAIN d.o
  /\ d.o["items"].t = "array"
  /\ \A i \in 1..Len(d.o["items"].a) : zItem(d.o["items"].a[i], finiteOnly)

\* ItemsSchema.parse: [ok |-> FALSE] stands for the ZodError it throws
ItemsSchemaParse(d, finiteOnly) ==
  IF ItemsSchemaAccepts(d, finiteOnly)
    THEN [ok |-> TRUE,
          value |-> JsObj([key \in {"items"} |->
                      JsArr([i \in 1..Len(d.o["items"].a) |->
                               StripItem(d.o["items"].a[i])])])]
    ELSE [ok |-> FALSE]

----------------------------------------------------------------------------
(* The itemsRaw pipeline *)

banned == {
  <<"s","n","a","c","k">>,
  <<"f","o","o","d">>,
  <<"m","e","a","l">>,
  <<"d","i","s","h">>,
  <<"a","p","p","e","t","i","z","e","r">>,
  <<"p","l","a","t","e">>,
  <<"j","u","n","k"," ","f","o","o","d">> }

PastaWords == {
  <<"s","p","a","g","h","e","t","t","i">>,
  <<"p","e","n","n","e">>,
  <<"f","u","s","i","l","l","i">>,
  <<"f","a","r","f","a","l","l","e">>,
  <<"m","a","c","a","r","o","n","i">>,
  <<"r","i","g","a","t","o","n","i">>,
  <<"t","a","g","l","i","a","t","e","l","l","e">>,
  <<"l","i","n","g","u","i","n","e">>,
  <<"f","e","t","t","u","c","c","i","n","e">>,
  <<"p","a","s","t","a">>,
  <<"n","o","o","d","l","e">> }

OrangeWords == {
  <<"o","r","a","n","g","e">>,
  <<"m","a","n","d","a","r","i","n">>,
  <<"t","a","n","g","e","r","i","n","e">> }

StrFries == <<"f","r","i","e","s">>
StrFrench == <<"f","r","e","n","c","h">>
StrPasta == <<"p","a","s","t","a">>
StrFrenchFries == <<"f","r","e","n","c","h"," ","f","r","i","e","s">>
StrOrange == <<"o","r","a","n","g","e">>

\* /(spaghetti|penne|...|pasta|noodle)/.test(l)
MatchesPasta(l) == \E w \in PastaWords : Includes(l, w)

\* /(fries|french\s*fries)/.test(l)
MatchesFries(l) ==
  \/ Includes(l, StrFries)
  \/ \E i \in 1..(Len(l) + 1) :
       /\ OccursAt(l, StrFrench, i)
       /\ \E j \in (i + Len(StrFrench))..(Len(l) + 1) :
            /\ \A m \in (i + Len(StrFrench))..(j - 1) : l[m] \in WhiteSpace
            /\ OccursAt(l, StrFries, j)

\* /(orange|mandarin|tangerine)/.test(l)
MatchesOrange(l) == \E w \in OrangeWords : Includes(l, w)

\* variant: the label is trimmed but keeps its case
SanitizeStringNoLower(v) == trim(String(JsOr(v, JsStr(<<>>))))

\* String(v || "").trim().toLowerCase()
SanitizeString(v) == toLowerCase(trim(String(JsOr(v, JsStr(<<>>)))))

\* variant: the lower clamp Math.max(0, ..) is missing
SanitizeConfidenceNoFloor(v) ==
  MathMin(Fin(Tenths(1)), JsOr(JsNum(Number(v)), JsNum(Fin(0))).n)

\* variant: the upper clamp Math.min(1, ..) is missing
SanitizeConfidenceNoCeil(v) ==
  MathMax(Fin(0), JsOr(JsNum(Number(v)), JsNum(Fin(0))).n)

\* Math.max(0, Math.min(1, Number(v) || 0))
SanitizeConfidence(v) ==
  MathMax(Fin(0),
          MathMin(Fin(Tenths(1)), JsOr(JsNum(Number(v)), JsNum(Fin(0))).n))

\* first .map
SanitizeItem(it) ==
  [label |-> SanitizeString(Get(it, "label")),
   canonical |-> SanitizeString(Get(it, "canonical")),
   confidence |-> SanitizeConfidence(Get(it, "confidence"))]

\* .filter predicate
Keep(it) == Len(it.label) > 0 /\ it.label \notin banned

\* variant: the pasta rule is applied last instead of first
CanonicalizePastaLast(it) ==
  LET l == it.label
      c0 == IF Len(it.canonical) > 0 THEN it.canonical ELSE l
      c1 == IF MatchesFries(l) THEN StrFrenchFries ELSE c0
      c2 == IF MatchesOrange(l) THEN StrOrange ELSE c1
      c3 == IF MatchesPasta(l) THEN StrPasta ELSE c2
  IN  [it EXCEPT !.canonical = c3]

\* second .map
Canonicalize(it) ==
  LET l == it.label
      c0 == IF Len(it.canonical) > 0 THEN it.canonical ELSE l
      c1 == IF MatchesPasta(l) THEN StrPasta ELSE c0
      c2 == IF MatchesFries(l) THEN StrFrenchFries ELSE c1
      c3 == IF MatchesOrange(l) THEN StrOrange ELSE c2
  IN  [it EXCEPT !.canonical = c3]

\* (a, b) => b.confidence - a.confidence
Compare(a, b) == NumSub(b.confidence, a.confidence)

Negative(x) == NumLess(x, Fin(0))

\* variant: x also goes in front of the elements it ties with
RECURSIVE InsertSortedTiesFirst(_, _)
InsertSortedTiesFirst(s, x) ==
  IF s = <<>> THEN <<x>>
  ELSE IF ~Negative(Compare(Head(s), x)) THEN <<x>> \o s
  ELSE <<Head(s)>> \o InsertSortedTiesFirst(Tail(s), x)

\* x goes in front of the first element it must precede
RECURSIVE InsertSorted(_, _)
InsertSorted(s, x) ==
  IF s = <<>> THEN <<x>>
  ELSE IF Negative(Compare(x, Head(s))) THEN <<x>> \o s
  ELSE <<Head(s)>> \o InsertSorted(Tail(s), x)

\* Array.prototype.sort with the comparator: a stable insertion sort
RECURSIVE SortFrom(_, _)
SortFrom(done, rest) ==
  IF rest = <<>> THEN done
  ELSE SortFrom(InsertSorted(done, Head(rest)), Tail(rest))

\* variant: the comparator is a.confidence - b.confidence
RECURSIVE InsertAscending(_, _)
InsertAscending(s, x) ==
  IF s = <<>> THEN <<x>>
  ELSE IF Negative(Compare(Head(s), x)) THEN <<x>> \o s
  ELSE <<Head(s)>> \o InsertAscending(Tail(s), x)

RECURSIVE SortAscendingFrom(_, _)
SortAscendingFrom(done, rest) ==
  IF rest = <<>> THEN done
  ELSE SortAscendingFrom(InsertAscending(done, Head(rest)), Tail(rest))

sortAscending(s) == SortAscendingFrom(<<>>, s)

sort(s) == SortFrom(<<>>, s)

\* variant: nothing is cut off
sliceWhole(s, n) == s

\* Array.prototype.slice(0, n) and String.prototype.slice(0, n)
slice(s, n) == SubSeq(s, 1, IF Len(s) < n THEN Len(s) ELSE n)

\* (parsed.items || []).map(...)
Sanitized(parsedValue) ==
  LET items == JsOr(Get(parsedValue, "items"), JsArr(<<>>)).a
  IN  [i \in 1..Len(items) |-> SanitizeItem(items[i])]

\* .filter(...).map(...)
Canonicalized(sanitized) ==
  LET kept == SelectSeq(sanitized, Keep)
  IN  [i \in 1..Len(kept) |-> Canonicalize(kept[i])]

\* .filter(...).map(...).sort(...).slice(0, 5)
Ranked(sanitized) == slice(sort(Canonicalized(sanitized)), MaxOut)

----------------------------------------------------------------------------
(* The handler *)

\* res.status(status).json(body)
Res(status, body) == [status |-> status, body |-> body]

\* new Error("upstream-timeout")
TimeoutError == [message |-> "upstream-timeout", code |-> "undefined"]

\* !textOut
IsEmptyText(text) == ~text.json /\ Len(text.chars) = 0

\* the locals and the response of the handler's body after the await
Locals(t, d, p, s, i, r) ==
  [textOut |-> t, data |-> d, parsed |-> p, sanitized |-> s,
   itemsRaw |-> i, res |-> r]

\* the try block from "const textOut = response.output_text" on
AfterAwait(response, finiteOnly) ==
  LET text == response.output_text
      json == JSONparse(text)
      zod == ItemsSchemaParse(json.value, finiteOnly)
      sanitized == Sanitized(zod.value)
      itemsRaw == Ranked(sanitized)
  IN  IF IsEmptyText(text)
        THEN Locals(text, Undefined, Undefined, Undefined, Undefined,
                    Res(502, [error |-> "no-output-text"]))
      ELSE IF ~json.ok
        THEN Locals(text, Undefined, Undefined, Undefined, Undefined,
                    Res(502, [error |-> "parse-failed",
                              text |-> slice(text.chars, SliceLen)]))
      ELSE IF ~zod.ok
        THEN Locals(text, json.value, Undefined, Undefined, Undefined,
                    Res(502, [error |-> "schema-failed"]))
      ELSE Locals(text, json.value, zod.value, sanitized, itemsRaw,
                  Res(200, itemsRaw))

\* the catch block
Catch(e) ==
  IF e.message = "upstream-timeout"
    THEN Res(504, [error |-> "upstream-timeout"])
  ELSE IF e.code = "LIMIT_FILE_SIZE"
    THEN Res(413, [error |-> "file-too-large"])
  ELSE Res(500, [error |-> "vision-failed"])

\* variant: a later settlement replaces an earlier one
SettleLastWins(current, outcome) == outcome

\* Promise.race: the first settlement wins, later ones are ignored
Settle(current, outcome) ==
  IF current.state = "pending" THEN outcome ELSE current

----------------------------------------------------------------------------
(* Upstream texts *)

S(chars) == [t |-> "string", s |-> chars]

ItemDoc(label, confidence, canonical) ==
  JsObj([key \in {"label", "confidence", "canonical"} |->
           CASE key = "label" -> S(label)
             [] key = "confidence" -> confidence
             [] key = "canonical" -> S(canonical)])

ItemsDoc(items) == JsObj([key \in {"items"} |-> JsArr(items)])

JsonText(doc) == [json |-> TRUE, doc |-> doc]

RawText(n) ==
  [json |-> FALSE, chars |-> [i \in 1..n |-> IF i % 2 = 1 THEN "{" ELSE "x"]]

StrTea == <<"t","e","a">>
StrRice == <<"R","i","c","e">>
StrPenne == <<" ","P","e","n","n","e"," ">>
StrFriesCap == <<"F","r","i","e","s">>
StrSnackCap == <<"S","N","A","C","K">>
StrDrink == <<"d","r","i","n","k">>
StrPastaPad == <<" ","P","a","s","t","a"," ">>

\* items of the long arrays: the first two tie once clamped to 1
RankItems == {
  ItemDoc(StrTea, Lit(10, FALSE), <<>>),
  ItemDoc(StrRice, Lit(15, FALSE), StrDrink),
  ItemDoc(StrPenne, Lit(5, FALSE), <<>>) }

Labels == {
  StrSnackCap, StrPenne, StrFriesCap, StrTea, <<>>, <<" "," ">>,
  <<"f","r","e","n","c","h"," ","\t","f","r","i","e","s">>,
  <<"o","r","a","n","g","e"," ","n","o","o","d","l","e">>,
  <<"p","a","s","t","a"," ","f","r","i","e","s">>,
  <<" ","J","u","n","k"," ","F","o","o","d">>,
  <<"j","u","n","k"," "," ","f","o","o","d">>,
  <<"M","a","n","d","a","r","i","n">> }

Canonicals == { <<>>, StrPastaPad, StrDrink }

Confidences == {
  Lit(-5, FALSE), Lit(0, FALSE), Lit(5, FALSE), Lit(10, FALSE),
  Lit(15, FALSE), Lit(1, TRUE), Lit(-1, TRUE) }

\* one-item arrays over every label, canonical and confidence
SingleDocs ==
  { ItemsDoc(<<ItemDoc(l, c, k)>>) :
      l \in Labels, c \in Confidences, k \in Canonicals }

ListDocs ==
  UNION { { ItemsDoc(f) : f \in [1..n -> RankItems] } : n \in 0..MaxItems }

\* arrays mixing banned, empty, tied and out-of-range items
MixedDocs == {
  ItemsDoc(<<ItemDoc(StrSnackCap, Lit(9, FALSE), <<"s","n","a","c","k">>),
             ItemDoc(StrPenne, Lit(5, FALSE), <<>>),
             ItemDoc(StrTea, Lit(10, FALSE), <<>>),
             ItemDoc(<<" "," ">>, Lit(10, FALSE), StrDrink),
             ItemDoc(StrRice, Lit(15, FALSE), StrDrink),
             ItemDoc(StrFriesCap, Lit(10, FALSE), <<>>),
             ItemDoc(<<"M","a","n","d","a","r","i","n">>, Lit(5, FALSE), <<>>),
             ItemDoc(StrTea, Lit(-5, FALSE), StrPastaPad)>>),
  ItemsDoc(<<ItemDoc(StrTea, Lit(0, FALSE), <<>>),
             ItemDoc(StrRice, Lit(-5, FALSE), <<>>),
             ItemDoc(<<" ","J","u","n","k"," ","F","o","o","d">>,
                     Lit(15, FALSE), <<>>),
             ItemDoc(StrFriesCap, Lit(-1, TRUE), StrDrink),
             ItemDoc(StrPenne, Lit(1, TRUE), <<>>),
             ItemDoc(StrTea, Lit(15, FALSE), StrDrink),
             ItemDoc(StrRice, Lit(10, FALSE), <<>>)>>) }

GoodItem == ItemDoc(StrTea, Lit(5, FALSE), StrDrink)

\* JSON documents of other shapes
OddDocs == <<
  JsNull,
  Lit(5, FALSE),
  S(StrTea),
  JsArr(<<>>),
  JsArr(<<GoodItem>>),
  JsObj([key \in {"foo"} |-> Lit(10, FALSE)]),
  JsObj([key \in {"items"} |-> JsNull]),
  JsObj([key \in {"items"} |-> S(StrTea)]),
  JsObj([key \in {"items"} |-> ItemsDoc(<<>>)]),
  ItemsDoc(<<JsObj([key \in {"foo"} |-> Lit(10, FALSE)])>>),
  ItemsDoc(<<JsNull>>),
  ItemsDoc(<<GoodItem, S(StrTea)>>),
  ItemsDoc(<<JsObj([key \in {"label", "confidence"} |->
               IF key = "label" THEN S(StrTea) ELSE Lit(5, FALSE)])>>),
  ItemsDoc(<<JsObj([key \in {"label", "canonical"} |-> S(StrTea)])>>),
  ItemsDoc(<<JsObj([key \in {"confidence", "canonical"} |->
               IF key = "canonical" THEN S(StrTea) ELSE Lit(5, FALSE)])>>),
  ItemsDoc(<<ItemDoc(StrTea, S(<<"0",".","9">>), StrDrink)>>),
  ItemsDoc(<<ItemDoc(StrTea, JsNull, StrDrink)>>),
  ItemsDoc(<<JsObj([key \in {"label", "confidence", "canonical"} |->
               IF key = "confidence" THEN Lit(5, FALSE)
               ELSE IF key = "label" THEN Lit(10, FALSE) ELSE S(StrDrink)])>>),
  ItemsDoc(<<JsObj([key \in {"label", "confidence", "canonical"} |->
               IF key = "confidence" THEN Lit(5, FALSE)
               ELSE IF key = "label" THEN S(StrTea) ELSE JsNull])>>),
  JsObj([key \in {"items", "foo"} |->
           IF key = "items" THEN JsArr(<<>>) ELSE Lit(10, FALSE)]),
  JsObj([key \in {"items", "model"} |->
           IF key = "items" THEN JsArr(<<GoodItem>>) ELSE S(StrTea)]),
  ItemsDoc(<<JsObj([key \in {"label", "confidence", "canonical", "kcal"} |->
               CASE key = "label" -> S(StrPenne)
                 [] key = "confidence" -> Lit(5, FALSE)
                 [] key = "canonical" -> S(<<>>)
                 [] key = "kcal" -> Lit(10, FALSE)])>> ) >>

RawLengths == {0, 1, SliceLen - 1, SliceLen, SliceLen + 1, 2 * SliceLen}

\* errors the upstream call rejects with
UpstreamErrors == {
  [message |-> "Connection error.", code |-> "undefined"],
  [message |-> "429 rate limit", code |-> "rate_limit_exceeded"] }

----------------------------------------------------------------------------
(* State *)

VARIABLES
  hasKey,      \* process.env.OPENAI_API_KEY is set
  zodFinite,   \* the installed zod's z.number() rejects infinite numbers
  pc,          \* "idle", "await" (suspended at the await), "done"
  upstream,    \* the promise of openai.responses.create
  timer,       \* the setTimeout of withTimeout
  race,        \* the promise of Promise.race
  locals,      \* textOut, data, parsed, the sanitized items, itemsRaw, and
               \* res: the response the body after the await produced
  sent         \* the responses written to res, in order

vars == <<hasKey, zodFinite, pc, upstream, timer, race, locals, sent>>

NoLocals ==
  [textOut |-> Undefined, data |-> Undefined, parsed |-> Undefined,
   sanitized |-> Undefined, itemsRaw |-> Undefined, res |-> Undefined]

Pending == [state |-> "pending"]
Fulfilled(v) == [state |-> "fulfilled", value |-> v]
Rejected(e) == [state |-> "rejected", reason |-> e]

Init ==
  /\ hasKey \in BOOLEAN
  /\ zodFinite \in BOOLEAN
  /\ pc = "idle"
  /\ upstream = "none"
  /\ timer = "none"
  /\ race = Pending
  /\ locals = NoLocals
  /\ sent = <<>>

\* the handler up to the await: the two guards, then withTimeout(create(..))
Start(hasFile) ==
  /\ pc = "idle"
  /\ IF ~hasKey
       THEN /\ sent' = Append(sent, Res(500, [error |-> "missing-openai-key"]))
            /\ pc' = "done"
            /\ UNCHANGED <<upstream, timer>>
     ELSE IF ~hasFile
       THEN /\ sent' = Append(sent, Res(400, [error |-> "missing-image"]))
            /\ pc' = "done"
            /\ UNCHANGED <<upstream, timer>>
     ELSE /\ upstream' = "pending"
          /\ timer' = "armed"
          /\ pc' = "await"
          /\ UNCHANGED sent
  /\ UNCHANGED <<hasKey, zodFinite, race, locals>>

\* openai.responses.create resolves with a response carrying output_text
UpstreamResolve(text) ==
  /\ upstream = "pending"
  /\ upstream' = "resolved"
  /\ race' = Settle(race, Fulfilled([output_text |-> text]))
  /\ UNCHANGED <<hasKey, zodFinite, pc, timer, locals, sent>>

\* openai.responses.create rejects
UpstreamReject(e) ==
  /\ upstream = "pending"
  /\ upstream' = "rejected"
  /\ race' = Settle(race, Rejected(e))
  /\ UNCHANGED <<hasKey, zodFinite, pc, timer, locals, sent>>

\* variant: the timer callback also answers the request itself
TimerFireResponds ==
  /\ timer = "armed"
  /\ timer' = "fired"
  /\ race' = Settle(race, Rejected(TimeoutError))
  /\ sent' = Append(sent, Res(504, [error |-> "upstream-timeout"]))
  /\ UNCHANGED <<hasKey, zodFinite, pc, upstream, locals>>

\* the setTimeout callback: rej(new Error("upstream-timeout"))
TimerFire ==
  /\ timer = "armed"
  /\ timer' = "fired"
  /\ race' = Settle(race, Rejected(TimeoutError))
  /\ UNCHANGED <<hasKey, zodFinite, pc, upstream, locals, sent>>

\* the handler resumes once the race has settled and runs to its return
Continue ==
  /\ pc = "await"
  /\ race.state # "pending"
  /\ pc' = "done"
  /\ IF race.state = "fulfilled"
       THEN /\ locals' = AfterAwait(race.value, zodFinite)
            /\ sent' = Append(sent, locals'.res)
       ELSE /\ sent' = Append(sent, Catch(race.reason))
            /\ UNCHANGED locals
  /\ UNCHANGED <<hasKey, zodFinite, upstream, timer, race>>

Next ==
  \/ \E hasFile \in BOOLEAN : Start(hasFile)
  \/ \E d \in ListDocs : UpstreamResolve(JsonText(d))
  \/ \E d \in SingleDocs : UpstreamResolve(JsonText(d))
  \/ \E d \in MixedDocs : UpstreamResolve(JsonText(d))
  \/ \E i \in 1..Len(OddDocs) : UpstreamResolve(JsonText(OddDocs[i]))
  \/ \E n \in RawLengths : UpstreamResolve(RawText(n))
  \/ \E e \in UpstreamErrors : UpstreamReject(e)
  \/ TimerFire
  \/ Continue

Spec == Init /\ [][Next]_vars

----------------------------------------------------------------------------
(* Properties *)

IsPrefix(p, s) == Len(p) <= Len(s) /\ p = SubSeq(s, 1, Len(p))

Answered == pc = "done" /\ Len(sent) >= 1

\* the handler answered 200 with the item list
Succeeded == Answered /\ sent[1].status = 200

\* the item list of the 200 response
Output == sent[1].body

\* the items array of the decoded, validated upstream text
InputItems == locals.parsed.o["items"].a

\* the input items that survive the filter, canonicalized, in input order
Survivors == Canonicalized(locals.sanitized)

WithConfidence(s, c) ==
  LET Same(x) == x.confidence = c IN SelectSeq(s, Same)

InUnitRange(x) == x.k = "fin" /\ 0 <= x.v /\ x.v <= Tenths(1)

\* C1: every list returned for a text that parses and validates has at most
\* 5 items, is in non-increasing order of confidence, and its items of equal
\* confidence are in the order they had in the input items array.
C1_RankedTruncatedStable ==
  Succeeded =>
    /\ Len(Output) <= MaxOut
    /\ \A i \in 1..(Len(Output) - 1) :
         ~NumLess(Output[i].confidence, Output[i + 1].confidence)
    /\ \A i \in 1..Len(Output) :
         IsPrefix(WithConfidence(Output, Output[i].confidence),
                  WithConfidence(Survivors, Output[i].confidence))

\* C1 witness: more than 5 survivors, the sort moved items, and two
\* different items tie next to each other in the output.
C1_Witness ==
  /\ Succeeded
  /\ Len(Survivors) > MaxOut
  /\ Len(Output) = MaxOut
  /\ Output # SubSeq(Survivors, 1, MaxOut)
  /\ \E i \in 1..(Len(Output) - 1) :
       /\ Output[i].confidence = Output[i + 1].confidence
       /\ Output[i].label # Output[i + 1].label

\* C2: every item of every successful output list has a confidence in [0, 1].
C2_ConfidenceInUnitRange ==
  Succeeded => \A i \in 1..Len(Output) : InUnitRange(Output[i].confidence)

\* C2 witness: an input confidence outside [0, 1] whose item is returned.
C2_Witness ==
  /\ Succeeded
  /\ Len(Output) = Len(InputItems)
  /\ \E i \in 1..Len(InputItems) : ~InUnitRange(InputItems[i].o["confidence"].n)

\* an input item that the filter has to let through
Allowed(item) ==
  LET l == toLowerCase(trim(item.o["label"].s))
  IN  Len(l) > 0 /\ l \notin banned

\* C3: no returned item has an empty or banned label, and input items whose
\* label is empty or banned once trimmed and lowercased are dropped.
C3_NoBannedLabel ==
  Succeeded =>
    /\ \A i \in 1..Len(Output) :
         Len(Output[i].label) > 0 /\ Output[i].label \notin banned
    /\ Len(Output) <= Cardinality({i \in 1..Len(InputItems) : Allowed(InputItems[i])})

\* C3 witness: a label that is banned only once lowercased, and dropped.
C3_Witness ==
  /\ Succeeded
  /\ Len(Output) < Len(InputItems)
  /\ Len(Output) < MaxOut
  /\ \E i \in 1..Len(InputItems) :
       /\ InputItems[i].o["label"].s \notin banned
       /\ trim(InputItems[i].o["label"].s) # <<>>
       /\ ~Allowed(InputItems[i])

\* the canonical of the last matching rule, else the supplied canonical,
\* else the label
ExpectedCanonical(label, canonical) ==
  IF MatchesOrange(label) THEN StrOrange
  ELSE IF MatchesFries(label) THEN StrFrenchFries
  ELSE IF MatchesPasta(label) THEN StrPasta
  ELSE IF canonical # <<>> THEN canonical
  ELSE label

\* C4: every returned item comes from a survivor of the filter whose label
\* and confidence it keeps and whose canonical is the replacement of the
\* last matching rule, else the sanitized canonical, else the label.
C4_CanonicalByLastRule ==
  Succeeded =>
    \A i \in 1..Len(Output) :
      \E j \in 1..Len(locals.sanitized) :
        /\ Output[i].label = locals.sanitized[j].label
        /\ Output[i].confidence = locals.sanitized[j].confidence
        /\ Output[i].canonical =
             ExpectedCanonical(locals.sanitized[j].label,
                               locals.sanitized[j].canonical)

\* C4 witness: a label matching the pasta and the fries rule, supplied with
\* a canonical of its own, is returned as french fries.
C4_Witness ==
  /\ Succeeded
  /\ Len(Output) = 1
  /\ Len(InputItems) = 1
  /\ MatchesPasta(Output[1].label) /\ MatchesFries(Output[1].label)
  /\ locals.sanitized[1].canonical = StrDrink
  /\ Output[1].canonical = StrFrenchFries

\* the handler resumed with an upstream text that is not valid JSON
NotJson == pc = "done" /\ race.state = "fulfilled" /\ ~race.value.output_text.json

ParseFailedWithPrefix ==
  /\ Len(sent) = 1
  /\ sent[1].status = 502
  /\ DOMAIN sent[1].body = {"error", "text"}
  /\ sent[1].body.error = "parse-failed"
  /\ Len(sent[1].body.text) <= SliceLen
  /\ IsPrefix(sent[1].body.text, race.value.output_text.chars)
  /\ locals.itemsRaw.t = "undefined"

\* C5 as stated: every upstream text that is not valid JSON ends in 502
\* parse-failed with a prefix of at most 400 characters and no item list.
C5_Original == NotJson => ParseFailedWithPrefix

\* C5: every non-empty upstream text that is not valid JSON ends in 502
\* parse-failed carrying a prefix of at most 400 characters of the text, and
\* no item list is returned; the empty text ends in 502 no-output-text.
C5_ParseFailed ==
  NotJson =>
    IF Len(race.value.output_text.chars) = 0
      THEN sent = <<Res(502, [error |-> "no-output-text"])>>
      ELSE ParseFailedWithPrefix

\* C5 witness: a text longer than 400 characters answered with its first 400.
C5_Witness ==
  /\ NotJson
  /\ Len(race.value.output_text.chars) > SliceLen
  /\ Len(sent) = 1
  /\ sent[1].body.error = "parse-failed"
  /\ Len(sent[1].body.text) = SliceLen

\* the handler resumed with valid JSON and decoded it
Decoded == pc = "done" /\ race.state = "fulfilled" /\ locals.data.t # "undefined"

IsItemShape(x) ==
  /\ x.t = "object"
  /\ "label" \in DOMAIN x.o /\ x.o["label"].t = "string"
  /\ "confidence" \in DOMAIN x.o /\ x.o["confidence"].t = "number"
  /\ "canonical" \in DOMAIN x.o /\ x.o["canonical"].t = "string"

\* an object with an items array of label/confidence/canonical objects
IsItemsShape(d) ==
  /\ d.t = "object"
  /\ "items" \in DOMAIN d.o
  /\ d.o["items"].t = "array"
  /\ \A i \in 1..Len(d.o["items"].a) : IsItemShape(d.o["items"].a[i])

AllFinite(d) ==
  \A i \in 1..Len(d.o["items"].a) : d.o["items"].a[i].o["confidence"].n.k = "fin"

SchemaFailed == sent = <<Res(502, [error |-> "schema-failed"])>>

\* C6 as stated: a decoded value is accepted only if it has the items shape
\* and no extra top-level keys; every other value ends in 502 schema-failed.
C6_Original ==
  Decoded =>
    IF IsItemsShape(locals.data) /\ DOMAIN locals.data.o = {"items"}
      THEN TRUE
      ELSE SchemaFailed

\* C6: a decoded value is accepted only if it is an object with an items
\* array whose elements each have a string label, a number confidence and a
\* string canonical; every other value ends in 502 schema-failed with only
\* the error key in the body; keys beyond these are ignored, so a value of
\* that shape with finite confidences is accepted whatever else it carries.
C6_SchemaGate ==
  Decoded =>
    /\ ~IsItemsShape(locals.data) => SchemaFailed
    /\ (IsItemsShape(locals.data) /\ AllFinite(locals.data)) => sent[1].status = 200

\* C6 witness: an items array whose element has the wrong shape is refused.
C6_Witness ==
  /\ Decoded
  /\ SchemaFailed
  /\ locals.data.t = "object"
  /\ "items" \in DOMAIN locals.data.o
  /\ locals.data.o["items"].t = "array"
  /\ Len(locals.data.o["items"].a) = 1
  /\ locals.data.o["items"].a[1].t = "object"
  /\ DOMAIN locals.data.o["items"].a[1].o = {"foo"}

\* a returned item as the JS object res.json serializes
ItemObject(it) ==
  JsObj([key \in {"label", "canonical", "confidence"} |->
           CASE key = "label" -> JsStr(it.label)
             [] key = "canonical" -> JsStr(it.canonical)
             [] key = "confidence" -> JsNum(it.confidence)])

\* the JSON text of {items: list}
Rewrapped(list) ==
  JSONstringify(JsObj([key \in {"items"} |->
                         JsArr([i \in 1..Len(list) |-> ItemObject(list[i])])]))

\* C7: running the pipeline on the JSON text of {items: L}, L a returned
\* list, succeeds and returns L again.
C7_Idempotent ==
  Succeeded =>
    AfterAwait([output_text |-> Rewrapped(Output)], zodFinite).res
      = Res(200, Output)

\* C7 witness: a full list with a tie that differs from its input.
C7_Witness ==
  /\ Succeeded
  /\ Len(Output) = MaxOut
  /\ Len(InputItems) > MaxOut
  /\ \E i \in 1..(Len(Output) - 1) :
       /\ Output[i].confidence = Output[i + 1].confidence
       /\ Output[i].label # Output[i + 1].label
  /\ \E i \in 1..Len(Output) : Output[i].canonical = StrPasta

TimedOut == race.state = "rejected" /\ race.reason = TimeoutError

\* C8: when the timer fires while the upstream call is unsettled, the race
\* rejects with the timeout error; from then on the race keeps that outcome,
\* textOut, data, parsed and itemsRaw are never assigned, and the only
\* response is 504 upstream-timeout, whatever the upstream call does later.
C8_TimeoutSkipsNormalizer ==
  [][ /\ (timer = "armed" /\ timer' = "fired" /\ upstream = "pending")
           => TimedOut'
      /\ TimedOut =>
           /\ TimedOut'
           /\ locals' = NoLocals
           /\ (pc' = "done"
                 => sent' = <<Res(504, [error |-> "upstream-timeout"])>>) ]_vars

\* C8 witness: answered 504 and the upstream call resolved afterwards.
C8_Witness ==
  /\ pc = "done"
  /\ TimedOut
  /\ upstream = "resolved"
  /\ sent = <<Res(504, [error |-> "upstream-timeout"])>>

\* what Math.max(0, Math.min(1, x)) is for a number that is not NaN
Clamped(x) ==
  IF x.k = "fin"
    THEN Fin(IF x.v < 0 THEN 0 ELSE IF x.v > Tenths(1) THEN Tenths(1) ELSE x.v)
    ELSE IF x.v > 0 THEN Fin(Tenths(1)) ELSE Fin(0)

\* the handler ran the sanitize step
SanitizeRan == pc = "done" /\ race.state = "fulfilled" /\ locals.parsed.t = "object"

\* C9 as stated: the sanitized confidence is 0 for an input that is not a
\* finite number and the input clamped to [0, 1] otherwise.
C9_Original ==
  SanitizeRan =>
    \A i \in 1..Len(InputItems) :
      locals.sanitized[i].confidence =
        IF InputItems[i].o["confidence"].n.k = "fin"
          THEN Clamped(InputItems[i].o["confidence"].n)
          ELSE Fin(0)

\* C9: the sanitized confidence is 0 for NaN and the input clamped to
\* [0, 1] otherwise: 1.5 yields 1, a negative number 0, +Infinity (the value
\* of the JSON text 1e999) 1 and -Infinity 0.
C9_SanitizedConfidence ==
  SanitizeRan =>
    \A i \in 1..Len(InputItems) :
      locals.sanitized[i].confidence =
        IF InputItems[i].o["confidence"].n.k = "nan"
          THEN Fin(0)
          ELSE Clamped(InputItems[i].o["confidence"].n)

\* C9 witness: an input confidence of +Infinity sanitized to 1.
C9_Witness ==
  /\ SanitizeRan
  /\ \E i \in 1..Len(InputItems) :
       /\ InputItems[i].o["confidence"].n = PosInf
       /\ locals.sanitized[i].confidence = Fin(Tenths(1))

\* C10: a request never has more than one response; the handler has
\* returned exactly when one response has been sent, and while it is
\* suspended with the race unsettled the timer is still armed, so it cannot
\* stay unanswered; a response once sent is never changed or followed by
\* another, whatever the upstream call and the timer do afterwards.
C10_ExactlyOneResponse ==
  /\ [](/\ Len(sent) <= 1
        /\ (pc = "done" <=> Len(sent) = 1)
        /\ (pc = "await" /\ race.state = "pending" => timer = "armed"))
  /\ [][sent # <<>> => sent' = sent]_vars

\* C10 witness: answered from the upstream result, the timer fired later.
C10_Witness ==
  /\ pc = "done"
  /\ race.state = "fulfilled"
  /\ timer = "fired"
  /\ Len(sent) = 1
  /\ sent[1].status = 200

====
